---- MODULE Spec2Model ----
(***************************************************************************)
(* The inheritance vault flow of src/src/main.rs: one orchestration flow   *)
(* (main) that creates two accounts and a faucet, mints to the owner,      *)
(* builds a time-locked note for the beneficiary, submits it, sleeps and   *)
(* consumes it as the beneficiary.  The ledger (heights, balances, the     *)
(* note set and its nullifiers) and the note's condition script            *)
(* (masm/inheritance_vault_note.masm) are not part of main.rs; they are    *)
(* modelled from the specification's sections 3, 4.2 and 6.                *)
(***************************************************************************)
EXTENDS Integers, Sequences, FiniteSets

\* ---------------------------------------------------------------- bounds
\* Heights the ledger may reach (block production is capped here).
MaxHeight == 4
\* Account identifiers are pairs (prefix, suffix) with parts in 1..IdRange.
IdRange == 2

\* ------------------------------------------------------ program constants
\* let mint_amount: u64 = 1000000;
mint_amount == 1000000
\* FungibleAsset::new(faucet.id(), 10)
NoteAmount == 10
\* sync_summary.block_num.as_u64() + 3
DeadlineMargin == 3

\* ------------------------------------------------------------------ state
VARIABLES
    pc,              \* position of main
    outcome,         \* "running", "ok" (Ok(())), "err" (Err by ?), "panic" (unwrap)
    error,           \* the error that ended the flow, "none" while there is none
    stopped_at,      \* the position at which the flow ended, "none" while it runs
    owner_account,   \* id of the owner account, NoId before line 76
    beneficiary_account, \* id of the beneficiary account, NoId before line 81
    faucet,          \* id of the faucet account, NoId before line 92
    block_num,       \* sync_summary.block_num of the sync at line 105
    deadline,        \* let deadline (line 112), NoHeight before
    inheritance_note, \* the note built at lines 122-134, NoNote before
    view,            \* the client's ledger view, as of its last sync_state
    tracked,         \* whether the client's store lists the note as an input note
    create_result,   \* the discarded result of submit_transaction, line 147
    consume_result,  \* the discarded result of submit_transaction, line 168
    printed,         \* the progress lines of println! written so far
    steps,           \* the steps of the flow completed so far, in order
    submits,         \* number of submit_transaction calls per transaction
    builtAt,         \* ledger height when the note was constructed
    broadcastAt,     \* ledger height when the note-creating tx was broadcast
    height,          \* ledger: current block height
    bal,             \* ledger: balance of every account id
    ledger_note,     \* ledger: the note set (the inheritance note or NoNote)
    nullified,       \* ledger: whether the note's nullifier is recorded
    consumptions,    \* ledger: number of consuming transactions it accepted
    lastAttempt      \* the last consumption attempt the ledger client evaluated

flowVars == <<pc, outcome, error, stopped_at, owner_account, beneficiary_account, faucet, block_num,
              deadline, inheritance_note, view, tracked, create_result, consume_result,
              printed, steps, submits, builtAt, broadcastAt>>
ledgerVars == <<height, bal, ledger_note, nullified, consumptions>>
vars == <<flowVars, ledgerVars, lastAttempt>>

\* ------------------------------------------------------------ value sets
IdParts == 1..IdRange
AccountIds == [prefix : IdParts, suffix : IdParts]
NoId == [prefix |-> 0, suffix |-> 0]
NoHeight == -1
NoNote == [inputs |-> <<>>, amount |-> 0, sender |-> NoId]
NoAttempt == [by |-> "none", locked |-> FALSE, spent |-> FALSE, known |-> FALSE,
              accepted |-> FALSE]
NoView == [height |-> NoHeight, bal |-> [a \in AccountIds |-> 0], note |-> NoNote,
           nullified |-> FALSE]

\* The faucet is an account of another type (AccountType::FungibleFaucet): its
\* id is outside the ids of the regular accounts.
FaucetId == [prefix |-> IdRange + 1, suffix |-> IdRange + 1]

\* ids already given to an account of this session
UsedIds == {owner_account, beneficiary_account} \ {NoId}

\* ------------------------------------------------- the note (main.rs 112-134)
\* let deadline = sync_summary.block_num.as_u64() + 3;
Deadline(b) == b + DeadlineMargin

\* Line 122 with the synced block number in place of the deadline.
NoteInputs_block_num ==
    <<block_num, beneficiary_account.suffix, beneficiary_account.prefix>>

\* Line 122 with the owner's identifiers in place of the beneficiary's.
NoteInputs_owner == <<deadline, owner_account.suffix, owner_account.prefix>>

\* Line 122 with the identifier's two parts in the other order.
NoteInputs_swapped ==
    <<deadline, beneficiary_account.prefix, beneficiary_account.suffix>>

\* NoteInputs::new(vec![Felt::new(deadline), beneficiary.suffix(), beneficiary.prefix()])
NoteInputs == <<deadline, beneficiary_account.suffix, beneficiary_account.prefix>>

\* Line 133 with the minted amount in place of the note's 10 units.
BuiltNote_mint_amount ==
    [inputs |-> NoteInputs, amount |-> mint_amount, sender |-> owner_account]

\* Note::new(assets, metadata, recipient)
BuiltNote == [inputs |-> NoteInputs, amount |-> NoteAmount, sender |-> owner_account]

\* ------------------------------- the condition script (specification 4.2)
\* Inputs are positional: [deadline_height, beneficiary_suffix, beneficiary_prefix].
Releasable(note, h) == h >= note.inputs[1]
IsBeneficiary(note, acct) ==
    /\ acct.suffix = note.inputs[2]
    /\ acct.prefix = note.inputs[3]
ConditionScript(note, h, acct) == Releasable(note, h) /\ IsBeneficiary(note, acct)

\* ------------------------------------------ the ledger (specification 3, 6)
\* The ledger without its nullifier check.
LedgerAccepts_nonullifier(note, h, acct) ==
    /\ ledger_note = note
    /\ note # NoNote
    /\ ConditionScript(note, h, acct)

\* A consuming transaction is accepted when the note is in the ledger's note
\* set, its nullifier is not yet recorded and its condition script holds.
LedgerAccepts(note, h, acct) ==
    /\ ledger_note = note
    /\ note # NoNote
    /\ ~nullified
    /\ ConditionScript(note, h, acct)

\* The role of an account id in this session.
Role(acct) ==
    IF acct = beneficiary_account THEN "beneficiary"
    ELSE IF acct = owner_account THEN "owner"
    ELSE "other"

Attempt(note, acct, ok) ==
    [by |-> Role(acct), locked |-> ~Releasable(note, height), spent |-> nullified,
     known |-> (ledger_note = note /\ note # NoNote), accepted |-> ok]

\* Whether a sync_state leaves the note in the client's store as an input
\* note it tracks: the sync may or may not import an unconsumed note of the
\* ledger (it imports by tag), and imports none that is absent or consumed.
TrackedBySync ==
    IF ledger_note # NoNote /\ ~nullified THEN BOOLEAN ELSE {FALSE}

\* The ledger's view handed to the client by sync_state.
Snapshot == [height |-> height, bal |-> bal, note |-> ledger_note,
             nullified |-> nullified]

Init ==
    /\ pc = "build_client"
    /\ outcome = "running"
    /\ error = "none"
    /\ stopped_at = "none"
    /\ owner_account = NoId
    /\ beneficiary_account = NoId
    /\ faucet = NoId
    /\ block_num = NoHeight
    /\ deadline = NoHeight
    /\ inheritance_note = NoNote
    /\ view = NoView
    /\ tracked = FALSE
    /\ create_result = "none"
    /\ consume_result = "none"
    /\ printed = {}
    /\ steps = <<>>
    /\ submits = [t \in {"create", "consume"} |-> 0]
    /\ builtAt = NoHeight
    /\ broadcastAt = NoHeight
    /\ height = 0
    /\ bal = [a \in AccountIds |-> 0]
    /\ ledger_note = NoNote
    /\ nullified = FALSE
    /\ consumptions = 0
    /\ lastAttempt = NoAttempt

\* ------------------------------------------------------------ flow helpers
\* unwrap() on an Err value e: the process panics with e
Panic(e) ==
    /\ pc' = "stopped"
    /\ outcome' = "panic"
    /\ error' = e
    /\ stopped_at' = pc

\* the ? operator on an Err value e: main returns Err(e)
ReturnErr(e) ==
    /\ pc' = "stopped"
    /\ outcome' = "err"
    /\ error' = e
    /\ stopped_at' = pc

Goto(l) ==
    /\ pc' = l
    /\ UNCHANGED <<outcome, error, stopped_at>>

\* ----------------------------------------------------- the flow (main)
\* ClientBuilder::new()...build().await?  (lines 60-65)
BuildClient ==
    /\ pc = "build_client"
    /\ \E ok \in BOOLEAN :
         IF ok THEN Goto("sync_initial") ELSE ReturnErr("ClientError")
    /\ UNCHANGED <<tracked, owner_account, beneficiary_account, faucet, block_num, deadline,
                   inheritance_note, view, create_result, consume_result, printed,
                   steps, submits, builtAt, broadcastAt, ledgerVars, lastAttempt>>

\* client.sync_state().await.unwrap()  (line 67)
SyncInitial ==
    /\ pc = "sync_initial"
    /\ \E ok \in BOOLEAN :
         IF ok THEN Goto("create_owner") /\ view' = Snapshot
               ELSE Panic("SynchronizationError") /\ view' = view
    /\ UNCHANGED <<tracked, owner_account, beneficiary_account, faucet, block_num, deadline,
                   inheritance_note, create_result, consume_result, printed,
                   steps, submits, builtAt, broadcastAt, ledgerVars, lastAttempt>>

\* create_basic_account(&mut client, keystore.clone()).await.unwrap()  (line 76)
CreateOwner ==
    /\ pc = "create_owner"
    /\ \/ \E id \in AccountIds \ UsedIds :
            /\ owner_account' = id
            /\ Goto("create_beneficiary")
       \/ Panic("ClientError") /\ owner_account' = owner_account
    /\ UNCHANGED <<tracked, beneficiary_account, faucet, block_num, deadline,
                   inheritance_note, view, create_result, consume_result, printed,
                   steps, submits, builtAt, broadcastAt, ledgerVars, lastAttempt>>

\* create_basic_account(&mut client, keystore.clone()).await.unwrap()  (line 81)
CreateBeneficiary ==
    /\ pc = "create_beneficiary"
    /\ \/ \E id \in AccountIds \ UsedIds :
            /\ beneficiary_account' = id
            /\ steps' = Append(steps, "accounts")
            /\ Goto("create_faucet")
       \/ /\ Panic("ClientError")
          /\ UNCHANGED <<beneficiary_account, steps>>
    /\ UNCHANGED <<tracked, owner_account, faucet, block_num, deadline,
                   inheritance_note, view, create_result, consume_result, printed,
                   submits, builtAt, broadcastAt, ledgerVars, lastAttempt>>

\* create_basic_faucet, up to its first await (lines 32-35):
\* client.get_latest_epoch_block().await.unwrap()
GetAnchorBlock ==
    /\ pc = "create_faucet"
    /\ \E ok \in BOOLEAN :
         IF ok THEN Goto("add_faucet") ELSE Panic("NetworkError")
    /\ UNCHANGED <<tracked, owner_account, beneficiary_account, faucet, block_num, deadline,
                   inheritance_note, view, create_result, consume_result, printed,
                   steps, submits, builtAt, broadcastAt, ledgerVars, lastAttempt>>

\* create_basic_faucet, from the anchor block to its return (lines 36-50):
\* builder.build().unwrap(); client.add_account(..).await?; add_key(..).unwrap();
\* the Result is unwrapped by main (line 92), so every failure is a panic.
CreateFaucet ==
    /\ pc = "add_faucet"
    /\ \/ /\ faucet' = FaucetId
          /\ steps' = Append(steps, "faucet")
          /\ Goto("sync_faucet")
       \/ /\ Panic("ClientError")
          /\ UNCHANGED <<faucet, steps>>
    /\ UNCHANGED <<tracked, owner_account, beneficiary_account, block_num, deadline,
                   inheritance_note, view, create_result, consume_result, printed,
                   submits, builtAt, broadcastAt, ledgerVars, lastAttempt>>

\* Line 97 with the Result dropped (let _ = ..): the failed synchronization is
\* passed over and the flow goes on to the mint.
SyncFaucet_swallow ==
    /\ pc = "sync_faucet"
    /\ \E ok \in BOOLEAN :
         IF ok THEN Goto("mint") /\ view' = Snapshot
               ELSE /\ pc' = "mint"
                    /\ error' = "SynchronizationError"
                    /\ UNCHANGED <<outcome, stopped_at, view>>
    /\ UNCHANGED <<tracked, owner_account, beneficiary_account, faucet, block_num, deadline,
                   inheritance_note, create_result, consume_result, printed,
                   steps, submits, builtAt, broadcastAt, ledgerVars, lastAttempt>>

\* client.sync_state().await?  (line 97)
SyncFaucet ==
    /\ pc = "sync_faucet"
    /\ \E ok \in BOOLEAN :
         IF ok THEN Goto("mint") /\ view' = Snapshot
               ELSE ReturnErr("SynchronizationError") /\ view' = view
    /\ UNCHANGED <<tracked, owner_account, beneficiary_account, faucet, block_num, deadline,
                   inheritance_note, create_result, consume_result, printed,
                   steps, submits, builtAt, broadcastAt, ledgerVars, lastAttempt>>

\* mint_from_faucet_for_account(.., &owner_account, &faucet, mint_amount, None)
\*     .await.unwrap()  (lines 99-103)
Mint ==
    /\ pc = "mint"
    /\ \/ /\ bal' = [bal EXCEPT ![owner_account] = @ + mint_amount]
          /\ steps' = Append(steps, "mint")
          /\ printed' = printed \cup {"minted"}
          /\ Goto("sync_mint")
       \/ /\ Panic("ClientError")
          /\ UNCHANGED <<bal, steps, printed>>
    /\ UNCHANGED <<tracked, owner_account, beneficiary_account, faucet, block_num, deadline,
                   inheritance_note, view, create_result, consume_result,
                   submits, builtAt, broadcastAt, height, ledger_note, nullified,
                   consumptions, lastAttempt>>

\* Line 105 without the refresh of the client's view: the block number is
\* read, the account state is the one of the sync before the mint.
SyncMint_noview ==
    /\ pc = "sync_mint"
    /\ Goto("compile")
    /\ block_num' = height
    /\ UNCHANGED <<tracked, owner_account, beneficiary_account, faucet, deadline, view,
                   inheritance_note, create_result, consume_result, printed,
                   steps, submits, builtAt, broadcastAt, ledgerVars, lastAttempt>>

\* let sync_summary = client.sync_state().await.unwrap();  (line 105)
SyncMint ==
    /\ pc = "sync_mint"
    /\ \E ok \in BOOLEAN :
         IF ok THEN /\ Goto("compile")
                    /\ view' = Snapshot
                    /\ block_num' = height
               ELSE /\ Panic("SynchronizationError")
                    /\ UNCHANGED <<view, block_num>>
    /\ UNCHANGED <<tracked, owner_account, beneficiary_account, faucet, deadline,
                   inheritance_note, create_result, consume_result, printed,
                   steps, submits, builtAt, broadcastAt, ledgerVars, lastAttempt>>

\* let deadline = ... + 3; fs::read_to_string(..).unwrap();
\* NoteScript::compile(note_code, assembler).unwrap()  (lines 112-120)
CompileScript ==
    /\ pc = "compile"
    /\ deadline' = Deadline(block_num)
    /\ \E ok \in BOOLEAN :
         IF ok THEN Goto("build_note") ELSE Panic("ConstructionError")
    /\ UNCHANGED <<tracked, owner_account, beneficiary_account, faucet, block_num,
                   inheritance_note, view, create_result, consume_result, printed,
                   steps, submits, builtAt, broadcastAt, ledgerVars, lastAttempt>>

\* NoteInputs::new(..).unwrap(), NoteRecipient::new, NoteTag::..unwrap(),
\* NoteMetadata::new(..)?, NoteAssets::new(..).unwrap(), Note::new,
\* TransactionRequestBuilder ... build().unwrap()  (lines 122-142).
\* The unwraps of lines 122, 125 and 133 and the ? of line 132 come before
\* Note::new (line 134); the unwrap of line 142 comes after it.
BuildNote ==
    /\ pc = "build_note"
    /\ \/ /\ inheritance_note' = BuiltNote
          /\ builtAt' = height
          /\ Goto("create_exec")
       \/ /\ Panic("ConstructionError")
          /\ UNCHANGED <<inheritance_note, builtAt>>
       \/ /\ ReturnErr("ConstructionError")
          /\ UNCHANGED <<inheritance_note, builtAt>>
       \/ /\ inheritance_note' = BuiltNote
          /\ builtAt' = height
          /\ Panic("ConstructionError")
    /\ UNCHANGED <<tracked, owner_account, beneficiary_account, faucet, block_num, deadline,
                   view, create_result, consume_result, printed,
                   steps, submits, broadcastAt, ledgerVars, lastAttempt>>

\* client.new_transaction(owner_account.id(), note_request).await.unwrap()
\* (lines 143-146): executes the transaction against the client's account
\* state; the output note's assets must be backed by the owner's balance.
CreateExec ==
    /\ pc = "create_exec"
    /\ \E ok \in BOOLEAN :
         IF ~ok THEN Panic("NetworkError")
         ELSE IF view.bal[owner_account] >= inheritance_note.amount
                 THEN Goto("create_submit")
                 ELSE Panic("SubmissionRejected")
    /\ UNCHANGED <<tracked, owner_account, beneficiary_account, faucet, block_num, deadline,
                   inheritance_note, view, create_result, consume_result, printed,
                   steps, submits, builtAt, broadcastAt, ledgerVars, lastAttempt>>

\* let _ = client.submit_transaction(tx_result.clone()).await;  (line 147)
\* The ledger applies the transaction, or rejects it, or the transport fails;
\* the Result is dropped and the flow goes on either way.
CreateSubmit ==
    /\ pc = "create_submit"
    /\ submits' = [submits EXCEPT !["create"] = @ + 1]
    /\ broadcastAt' = height
    /\ \E ok \in BOOLEAN :
         IF ok /\ bal[owner_account] >= inheritance_note.amount /\ ledger_note = NoNote
            THEN /\ bal' = [bal EXCEPT ![owner_account] = @ - inheritance_note.amount]
                 /\ ledger_note' = inheritance_note
                 /\ create_result' = "ok"
            ELSE /\ UNCHANGED <<bal, ledger_note>>
                 /\ create_result' = "err"
    /\ Goto("sync_create")
    /\ UNCHANGED <<tracked, owner_account, beneficiary_account, faucet, block_num, deadline,
                   inheritance_note, view, consume_result, printed,
                   steps, builtAt, height, nullified, consumptions, lastAttempt>>

\* Lines 148-150 with the note rebuilt against the new synchronization: its
\* deadline input moves with the height the sync returns.
SyncCreate_rebuilds ==
    /\ pc = "sync_create"
    /\ Goto("sleep")
    /\ view' = Snapshot
    /\ inheritance_note' = [inheritance_note EXCEPT !.inputs[1] = height + DeadlineMargin]
    /\ printed' = printed \cup {"note_submitted"}
    /\ steps' = Append(steps, "create")
    /\ UNCHANGED <<tracked, owner_account, beneficiary_account, faucet, block_num, deadline,
                   create_result, consume_result,
                   submits, builtAt, broadcastAt, ledgerVars, lastAttempt>>

\* Lines 148-150 without the synchronization of line 148.
SyncCreate_noresync ==
    /\ pc = "sync_create"
    /\ Goto("sleep")
    /\ printed' = printed \cup {"note_submitted"}
    /\ steps' = Append(steps, "create")
    /\ UNCHANGED <<tracked, owner_account, beneficiary_account, faucet, block_num, deadline,
                   inheritance_note, view, create_result, consume_result,
                   submits, builtAt, broadcastAt, ledgerVars, lastAttempt>>

\* client.sync_state().await?; println!("Note submitted successfully! ..")
\* (lines 148-150)
SyncCreate ==
    /\ pc = "sync_create"
    /\ \E ok \in BOOLEAN :
         IF ok THEN /\ Goto("sleep")
                    /\ view' = Snapshot
                    /\ tracked' \in TrackedBySync
                    /\ printed' = printed \cup {"note_submitted"}
                    /\ steps' = Append(steps, "create")
               ELSE /\ ReturnErr("SynchronizationError")
                    /\ UNCHANGED <<view, tracked, printed, steps>>
    /\ UNCHANGED <<owner_account, beneficiary_account, faucet, block_num, deadline,
                   inheritance_note, create_result, consume_result,
                   submits, builtAt, broadcastAt, ledgerVars, lastAttempt>>

\* Line 157 as a wait for the deadline itself: the flow goes on only once the
\* ledger has reached the deadline height.
Sleep_until_deadline ==
    /\ pc = "sleep"
    /\ height >= deadline
    /\ Goto("consume_exec")
    /\ UNCHANGED <<tracked, owner_account, beneficiary_account, faucet, block_num, deadline,
                   inheritance_note, view, create_result, consume_result, printed,
                   steps, submits, builtAt, broadcastAt, ledgerVars, lastAttempt>>

\* sleep(Duration::from_secs(10)).await;  (line 157)
Sleep ==
    /\ pc = "sleep"
    /\ Goto("consume_exec")
    /\ UNCHANGED <<tracked, owner_account, beneficiary_account, faucet, block_num, deadline,
                   inheritance_note, view, create_result, consume_result, printed,
                   steps, submits, builtAt, broadcastAt, ledgerVars, lastAttempt>>

\* Lines 159-167 with a retry: a rejected execution sends the flow back to the
\* wait instead of ending it.
ConsumeExec_retry ==
    /\ pc = "consume_exec"
    /\ IF ConditionScript(inheritance_note, height, beneficiary_account)
          THEN /\ Goto("consume_submit")
               /\ lastAttempt' = lastAttempt
          ELSE /\ pc' = "sleep"
               /\ error' = "SubmissionRejected"
               /\ UNCHANGED <<outcome, stopped_at>>
               /\ lastAttempt' = Attempt(inheritance_note, beneficiary_account, FALSE)
    /\ UNCHANGED <<tracked, owner_account, beneficiary_account, faucet, block_num, deadline,
                   inheritance_note, view, create_result, consume_result, printed,
                   steps, submits, builtAt, broadcastAt, ledgerVars>>

\* Lines 159-167 with the note as an authenticated input
\* (with_authenticated_input_notes): the note is looked up in the client's
\* store, and the execution fails when the store does not track it.
ConsumeExec_authenticated ==
    /\ pc = "consume_exec"
    /\ \E ok \in BOOLEAN :
         IF ~ok THEN Panic("NetworkError") /\ lastAttempt' = lastAttempt
         ELSE IF tracked /\ ConditionScript(inheritance_note, height, beneficiary_account)
                 THEN /\ Goto("consume_submit")
                      /\ lastAttempt' = lastAttempt
                 ELSE /\ Panic("SubmissionRejected")
                      /\ lastAttempt' =
                             Attempt(inheritance_note, beneficiary_account, FALSE)
    /\ UNCHANGED <<tracked, owner_account, beneficiary_account, faucet, block_num, deadline,
                   inheritance_note, view, create_result, consume_result, printed,
                   steps, submits, builtAt, broadcastAt, ledgerVars>>

\* client.new_transaction(beneficiary_account.id(), consume_custom_request)
\*     .await.unwrap()  (lines 159-167): executes the transaction, the note's
\* condition script included, with the note as an unauthenticated input; the
\* result is an executed transaction (tx_result.executed_transaction()).
ConsumeExec ==
    /\ pc = "consume_exec"
    /\ \E ok \in BOOLEAN :
         IF ~ok THEN Panic("NetworkError") /\ lastAttempt' = lastAttempt
         ELSE IF ConditionScript(inheritance_note, height, beneficiary_account)
                 THEN /\ Goto("consume_submit")
                      /\ lastAttempt' = lastAttempt
                 ELSE /\ Panic("SubmissionRejected")
                      /\ lastAttempt' =
                             Attempt(inheritance_note, beneficiary_account, FALSE)
    /\ UNCHANGED <<tracked, owner_account, beneficiary_account, faucet, block_num, deadline,
                   inheritance_note, view, create_result, consume_result, printed,
                   steps, submits, builtAt, broadcastAt, ledgerVars>>

\* let _ = client.submit_transaction(tx_result.clone()).await;  (line 168)
\* The ledger applies the transaction, or rejects it, or the transport fails;
\* the Result is dropped and the flow goes on either way.
ConsumeSubmit ==
    /\ pc = "consume_submit"
    /\ submits' = [submits EXCEPT !["consume"] = @ + 1]
    /\ \E ok \in BOOLEAN :
         LET acc == ok /\ LedgerAccepts(inheritance_note, height, beneficiary_account) IN
         /\ lastAttempt' = IF ok
                              THEN Attempt(inheritance_note, beneficiary_account, acc)
                              ELSE lastAttempt
         /\ IF acc
               THEN /\ bal' = [bal EXCEPT ![beneficiary_account] =
                                              @ + inheritance_note.amount]
                    /\ nullified' = TRUE
                    /\ consumptions' = consumptions + 1
                    /\ consume_result' = "ok"
               ELSE /\ UNCHANGED <<bal, nullified, consumptions>>
                    /\ consume_result' = "err"
    /\ Goto("sync_consume")
    /\ UNCHANGED <<tracked, owner_account, beneficiary_account, faucet, block_num, deadline,
                   inheritance_note, view, create_result, printed,
                   steps, builtAt, broadcastAt, height, ledger_note>>

\* client.sync_state().await?; println!("Consumed Note Tx: ..."); Ok(())
\* (lines 169-176)
SyncConsume ==
    /\ pc = "sync_consume"
    /\ \E ok \in BOOLEAN :
         IF ok THEN /\ pc' = "stopped"
                    /\ outcome' = "ok"
                    /\ stopped_at' = "end"
                    /\ error' = error
                    /\ view' = Snapshot
                    /\ tracked' \in TrackedBySync
                    /\ printed' = printed \cup {"consumed"}
                    /\ steps' = Append(steps, "consume")
               ELSE /\ ReturnErr("SynchronizationError")
                    /\ UNCHANGED <<view, tracked, printed, steps>>
    /\ UNCHANGED <<owner_account, beneficiary_account, faucet, block_num, deadline,
                   inheritance_note, create_result, consume_result,
                   submits, builtAt, broadcastAt, ledgerVars, lastAttempt>>

\* ------------------------------------------------------- the environment
\* The ledger produces a block.
ProduceBlock ==
    /\ height < MaxHeight
    /\ height' = height + 1
    /\ UNCHANGED <<flowVars, bal, ledger_note, nullified, consumptions, lastAttempt>>

\* The ledger applying a rejected transaction in part: the nullifier of a
\* rejected consumption is recorded.
OtherAttempt_partial ==
    /\ ledger_note # NoNote
    /\ \E acct \in AccountIds :
         LET acc == LedgerAccepts(ledger_note, height, acct) IN
         /\ lastAttempt' = Attempt(ledger_note, acct, acc)
         /\ nullified' = TRUE
         /\ IF acc
               THEN /\ bal' = [bal EXCEPT ![acct] = @ + ledger_note.amount]
                    /\ consumptions' = consumptions + 1
               ELSE UNCHANGED <<bal, consumptions>>
    /\ UNCHANGED <<flowVars, height, ledger_note>>

\* Some account of the network submits a transaction consuming the note (the
\* note is public: NoteType::Public).
OtherAttempt ==
    /\ ledger_note # NoNote
    /\ \E acct \in AccountIds :
         LET acc == LedgerAccepts(ledger_note, height, acct) IN
         /\ lastAttempt' = Attempt(ledger_note, acct, acc)
         /\ IF acc
               THEN /\ bal' = [bal EXCEPT ![acct] = @ + ledger_note.amount]
                    /\ nullified' = TRUE
                    /\ consumptions' = consumptions + 1
               ELSE UNCHANGED <<bal, nullified, consumptions>>
    /\ UNCHANGED <<flowVars, height, ledger_note>>

Next ==
    \/ BuildClient
    \/ SyncInitial
    \/ CreateOwner
    \/ CreateBeneficiary
    \/ GetAnchorBlock
    \/ CreateFaucet
    \/ SyncFaucet
    \/ Mint
    \/ SyncMint
    \/ CompileScript
    \/ BuildNote
    \/ CreateExec
    \/ CreateSubmit
    \/ SyncCreate
    \/ Sleep
    \/ ConsumeExec
    \/ ConsumeSubmit
    \/ SyncConsume
    \/ ProduceBlock
    \/ OtherAttempt

Spec == Init /\ [][Next]_vars

\* ------------------------------------------------------------------ claims
\* Positions of main after the resynchronization of line 148.
AfterCreateSync == {"sleep", "consume_exec", "consume_submit", "sync_consume"}

\* The order of the flow's steps.
StepOrder == <<"accounts", "faucet", "mint", "create", "consume">>

\* C1: a consumption attempt made while the ledger height is below the note's
\* deadline input is rejected, whoever makes it, and the note is never consumed
\* at a height below the deadline the flow computed for it.
C1_LockedAcceptsNoConsumer ==
    /\ lastAttempt.locked => ~lastAttempt.accepted
    /\ nullified => height >= deadline
    /\ consumptions > 0 => height >= deadline

\* C1 witness: the beneficiary's attempt on the note, present on the ledger and
\* unconsumed, is rejected while the note is locked.
C1_Witness ==
    /\ lastAttempt.by = "beneficiary"
    /\ lastAttempt.locked
    /\ lastAttempt.known
    /\ ~lastAttempt.spent
    /\ ~lastAttempt.accepted
    /\ height < deadline

\* C2: a consumption attempt by an account that is not the beneficiary is
\* rejected at every height; the owner's balance never gets the note's assets
\* back and no account but the beneficiary is credited.
C2_OnlyBeneficiaryConsumes ==
    /\ lastAttempt.by # "beneficiary" => ~lastAttempt.accepted
    /\ \A a \in AccountIds \ {beneficiary_account} :
           bal[a] <= (IF a = owner_account THEN mint_amount ELSE 0)
    /\ ledger_note # NoNote => bal[owner_account] = mint_amount - NoteAmount

\* C2 witness: the owner's attempt after the deadline, on the unconsumed note,
\* is rejected.
C2_Witness ==
    /\ lastAttempt.by = "owner"
    /\ ~lastAttempt.locked
    /\ lastAttempt.known
    /\ ~lastAttempt.spent
    /\ ~lastAttempt.accepted

\* C3: an attempt by the beneficiary on the unconsumed note at a height >= the
\* deadline is accepted, and the beneficiary's balance is then the note's ten
\* units (it was 0 before).
C3_BeneficiaryConsumesAtDeadline ==
    /\ (/\ lastAttempt.by = "beneficiary"
        /\ ~lastAttempt.locked
        /\ lastAttempt.known
        /\ ~lastAttempt.spent) => lastAttempt.accepted
    /\ beneficiary_account # NoId =>
           bal[beneficiary_account] = (IF nullified THEN 10 ELSE 0)
    /\ consume_result = "ok" => bal[beneficiary_account] = 10

\* C3 witness: the flow's own consumption is accepted at height = deadline.
C3_Witness ==
    /\ consume_result = "ok"
    /\ lastAttempt.accepted
    /\ height = deadline
    /\ bal[beneficiary_account] = 10

\* C4: the ledger accepts at most one consumption of the note; an attempt on
\* the consumed note is rejected and credits nobody.
C4_ConsumedAtMostOnce ==
    /\ consumptions <= 1
    /\ lastAttempt.spent => ~lastAttempt.accepted
    /\ \A a \in AccountIds \ {owner_account} : bal[a] <= NoteAmount

\* C4 witness: after an accepted consumption, the beneficiary's next attempt
\* (at a height >= deadline) is rejected.
C4_Witness ==
    /\ consumptions = 1
    /\ lastAttempt.spent
    /\ lastAttempt.by = "beneficiary"
    /\ ~lastAttempt.locked
    /\ ~lastAttempt.accepted
    /\ bal[beneficiary_account] = NoteAmount

\* C5 (as claimed): a failed submission ends the flow: after a failed
\* note-creating submission the flow does not go on to the wait and the
\* consumption nor prints its success line, and after a failed consuming
\* submission it neither prints success nor returns Ok.
C5_SubmissionErrorsSurface ==
    /\ create_result = "err" =>
           /\ pc \notin AfterCreateSync
           /\ "note_submitted" \notin printed
    /\ consume_result = "err" =>
           /\ "consumed" \notin printed
           /\ outcome # "ok"

\* The note's condition state, once the note is built.
NoteReleasable == inheritance_note # NoNote /\ Releasable(inheritance_note, height)

\* C6: a Releasable note stays Releasable, and a Locked note becomes Releasable
\* only in a step in which the ledger height advances.
C6_LockedToReleasableOnly ==
    [][/\ NoteReleasable => NoteReleasable'
       /\ (inheritance_note # NoNote /\ ~NoteReleasable /\ NoteReleasable') =>
              (height' > height /\ UNCHANGED flowVars)]_vars

\* C6 witness: a note built Locked is Releasable, with the flow past the
\* submission, the sync and the wait.
C6_Witness ==
    /\ inheritance_note # NoNote
    /\ builtAt < deadline
    /\ NoteReleasable
    /\ pc = "consume_exec"
    /\ lastAttempt.locked

\* C7 (as claimed): the deadline is greater than the ledger height when the
\* note is constructed and when the note-creating transaction is broadcast.
C7_DeadlineAheadOfLedger ==
    /\ builtAt # NoHeight => deadline > builtAt
    /\ broadcastAt # NoHeight => deadline > broadcastAt

\* C8: once a submission was accepted, every later position of the flow has a
\* view taken after it: the view holds the note and the owner's debited balance
\* after the creation, and the nullifier and the credited beneficiary after the
\* consumption.
C8_ResyncAfterSubmission ==
    /\ (create_result = "ok" /\ (pc \in AfterCreateSync \/ outcome = "ok")) =>
           /\ view.height >= broadcastAt
           /\ view.note = inheritance_note
           /\ view.bal[owner_account] = mint_amount - NoteAmount
    /\ (consume_result = "ok" /\ (outcome = "ok" \/ "consumed" \in printed)) =>
           /\ view.nullified
           /\ view.bal[beneficiary_account] = NoteAmount

\* C8 witness: the flow ended after both submissions were accepted, with a view
\* later than the one the deadline was computed from.
C8_Witness ==
    /\ create_result = "ok"
    /\ consume_result = "ok"
    /\ outcome = "ok"
    /\ view.nullified
    /\ view.height > block_num

\* C9: the steps complete in the order accounts, faucet, mint, create, consume,
\* and the note-creating transaction is built and executed on a view that
\* holds the minted balance of the owner.
C9_StepsInOrder ==
    /\ Len(steps) <= Len(StepOrder)
    /\ steps = SubSeq(StepOrder, 1, Len(steps))
    /\ pc \in {"compile", "build_note", "create_exec", "create_submit"} =>
           /\ steps = SubSeq(StepOrder, 1, 3)
           /\ view.bal[owner_account] = mint_amount
    /\ pc \in AfterCreateSync => steps = SubSeq(StepOrder, 1, 4)

\* C9 witness: a run that completed the five steps.
C9_Witness ==
    /\ outcome = "ok"
    /\ steps = StepOrder

\* C10: each transaction is submitted at most once, and when the consumption
\* attempted after the wait is rejected the flow ends there with that
\* rejection: nothing is submitted, nothing is attempted again, no success is
\* reported.
C10_NoRetry ==
    /\ submits["create"] <= 1
    /\ submits["consume"] <= 1
    /\ (error = "SubmissionRejected" /\ steps = SubSeq(StepOrder, 1, 4)) =>
           /\ pc = "stopped"
           /\ outcome = "panic"
           /\ stopped_at = "consume_exec"
           /\ submits["consume"] = 0
           /\ "consumed" \notin printed

\* C10 witness: the flow's attempt after the wait came before the deadline and
\* was rejected.
C10_Witness ==
    /\ error = "SubmissionRejected"
    /\ stopped_at = "consume_exec"
    /\ height < deadline
    /\ submits["create"] = 1
    /\ create_result = "ok"

\* ------------------------------------------------- the wait (main.rs 156-157)
\* Block intervals (seconds per block) the wait is judged against: 1..MaxBlockInterval.
MaxBlockInterval == 5

\* Duration::from_secs(10)
SleepSeconds == 10

\* The time main waits between the note's creation and its consumption, for a
\* deadline d and an observed height h: sleep(Duration::from_secs(10)).
WaitSeconds(d, h) == SleepSeconds

\* C11 (as claimed): the wait before the consumption covers the blocks that
\* remain to the deadline at the observed height, at every block interval
\* (the safety margin taken as 0, the least the claim allows).
C11_WaitCoversRemainingBlocks ==
    pc = "consume_exec" =>
        \A interval \in 1..MaxBlockInterval :
            WaitSeconds(deadline, view.height) >= (deadline - view.height) * interval


\* Positions of main that call sync_state (lines 67, 97, 105, 148, 169).
SyncPositions == {"sync_initial", "sync_faucet", "sync_mint", "sync_create", "sync_consume"}

\* C12: a failed synchronization ends the flow where it failed (by panic or by
\* Err), and from then on no step of the flow runs: its position, its results,
\* its submissions and its view never change again.
C12_SyncFailureBlocksLaterSteps ==
    [][/\ error' = "SynchronizationError" =>
              /\ pc' = "stopped"
              /\ outcome' \in {"panic", "err"}
              /\ stopped_at' \in SyncPositions
       /\ error = "SynchronizationError" => UNCHANGED flowVars]_vars

\* C12 witness: the synchronization after the accepted note creation failed;
\* the ledger has passed the deadline and no consumption was submitted.
C12_Witness ==
    /\ error = "SynchronizationError"
    /\ stopped_at = "sync_create"
    /\ create_result = "ok"
    /\ height >= deadline
    /\ submits["consume"] = 0
    /\ lastAttempt.by = "other"


\* The ledger's state a transaction may change.
LedgerState == <<bal, ledger_note, nullified, consumptions>>

\* The note-creating transaction applied in full: the note enters the note
\* set and its amount leaves the sender's balance.
CreationApplied ==
    /\ ledger_note = NoNote
    /\ ledger_note' # NoNote
    /\ bal' = [bal EXCEPT ![ledger_note'.sender] = @ - ledger_note'.amount]
    /\ UNCHANGED <<nullified, consumptions>>

\* A consuming transaction applied in full: the nullifier is recorded and the
\* note's amount enters one account's balance.
ConsumptionApplied ==
    /\ ~nullified
    /\ nullified'
    /\ consumptions' = consumptions + 1
    /\ ledger_note' = ledger_note
    /\ \E a \in AccountIds : bal' = [bal EXCEPT ![a] = @ + ledger_note.amount]

\* The mint applied in full.
MintApplied ==
    /\ pc = "mint"
    /\ bal' = [bal EXCEPT ![owner_account] = @ + mint_amount]
    /\ UNCHANGED <<ledger_note, nullified, consumptions>>

\* C13: every step leaves the ledger's balances, note set and nullifiers
\* unchanged or applies one transaction in full; a submission the ledger
\* rejects (a rejected attempt, a failed creating or consuming submission)
\* changes none of them, and a submission on the consumed note is rejected.
C13_AcceptedInFullOrNotAtAll ==
    [][/\ \/ UNCHANGED LedgerState
          \/ CreationApplied
          \/ ConsumptionApplied
          \/ MintApplied
       /\ (lastAttempt' # lastAttempt /\ ~lastAttempt'.accepted) => UNCHANGED LedgerState
       /\ (create_result' # create_result /\ create_result' = "err") =>
              UNCHANGED LedgerState
       /\ (consume_result' # consume_result /\ consume_result' = "err") =>
              UNCHANGED LedgerState
       /\ (nullified /\ lastAttempt' # lastAttempt) =>
              (~lastAttempt'.accepted /\ UNCHANGED LedgerState)]_vars

\* C13 witness: the flow's consumption was accepted and the same consumption,
\* submitted again by the beneficiary, was rejected: the balances are those of
\* one creation and one consumption.
C13_Witness ==
    /\ consume_result = "ok"
    /\ lastAttempt.by = "beneficiary"
    /\ lastAttempt.spent
    /\ ~lastAttempt.accepted
    /\ consumptions = 1
    /\ bal[owner_account] = mint_amount - NoteAmount
    /\ bal[beneficiary_account] = NoteAmount
    /\ ledger_note = inheritance_note


\* Positions of main that build, submit and confirm the consuming transaction.
ConsumePositions == {"consume_exec", "consume_submit", "sync_consume"}

\* C16 (as claimed): the consuming transaction is built and submitted only
\* when the ledger accepted the note-creating transaction.
C16_ConsumeOnlyCreatedNote ==
    (pc \in ConsumePositions \/ submits["consume"] > 0) => create_result = "ok"

\* The amount held by the inheritance note while it is in the ledger's note
\* set and unconsumed.
HeldByNote == IF ledger_note # NoNote /\ ~nullified THEN ledger_note.amount ELSE 0

\* C17: once the mint is done, owner + unconsumed note + beneficiary is the
\* minted 1,000,000; the creation takes exactly 10 units from the owner, the
\* consumption gives exactly 10 units to the beneficiary, and no other regular
\* account holds units.
C17_AssetsConserved ==
    "mint" \in {steps[i] : i \in 1..Len(steps)} =>
        /\ bal[owner_account] + HeldByNote + bal[beneficiary_account] = 1000000
        /\ bal[owner_account] = 1000000 - (IF ledger_note # NoNote THEN 10 ELSE 0)
        /\ bal[beneficiary_account] = (IF consumptions > 0 THEN 10 ELSE 0)
        /\ \A a \in AccountIds \ {owner_account, beneficiary_account} : bal[a] = 0

\* C17 witness: the note was created and consumed: 999,990 with the owner, 10
\* with the beneficiary, nothing left in the note.
C17_Witness ==
    /\ outcome = "ok"
    /\ bal[owner_account] = 999990
    /\ bal[beneficiary_account] = 10
    /\ HeldByNote = 0
    /\ view.bal = bal


\* ------------------------------------------------------------ termination
\* One step of main.
FlowNext ==
    \/ BuildClient
    \/ SyncInitial
    \/ CreateOwner
    \/ CreateBeneficiary
    \/ GetAnchorBlock
    \/ CreateFaucet
    \/ SyncFaucet
    \/ Mint
    \/ SyncMint
    \/ CompileScript
    \/ BuildNote
    \/ CreateExec
    \/ CreateSubmit
    \/ SyncCreate
    \/ Sleep
    \/ ConsumeExec
    \/ ConsumeSubmit
    \/ SyncConsume

\* Every call main awaits returns (with a result or an error: the RPC client
\* has a timeout, line 57) and the sleep ends; the ledger is not required to
\* produce blocks.
FairSpec == Init /\ [][Next]_vars /\ WF_vars(FlowNext)

\* C18: every run of the flow reaches a final state: main returned Ok or Err,
\* or panicked.
C18_FlowTerminates == <>(pc = "stopped")

\* C18 witness: a run that went through the wait and ended with Ok(()) at the
\* height of the deadline.
C18_Witness ==
    /\ pc = "stopped"
    /\ stopped_at = "end"
    /\ outcome = "ok"
    /\ "consumed" \in printed
    /\ height = deadline


\* C15: the outcome of the beneficiary's consumption is a function of the
\* ledger's note set and nullifier, the ledger height and the consumer's
\* identifiers alone: the execution passes exactly when the condition script
\* holds and the submission is accepted only when the ledger accepts, whether
\* or not the client's store tracks the note; a failed submission the ledger
\* would have accepted is a transport failure, which evaluates no attempt.
C15_AcceptanceIgnoresTracking ==
    [][/\ (pc = "consume_exec" /\ pc' = "consume_submit") =>
              ConditionScript(inheritance_note, height, beneficiary_account)
       /\ (pc = "consume_exec" /\ error' = "SubmissionRejected") =>
              ~ConditionScript(inheritance_note, height, beneficiary_account)
       /\ (pc = "consume_submit" /\ consume_result' = "ok") =>
              LedgerAccepts(inheritance_note, height, beneficiary_account)
       /\ (pc = "consume_submit" /\ consume_result' = "err"
               /\ LedgerAccepts(inheritance_note, height, beneficiary_account)) =>
              lastAttempt' = lastAttempt
       /\ (pc = "consume_submit" /\ consume_result' = "err"
               /\ ~LedgerAccepts(inheritance_note, height, beneficiary_account)) =>
              UNCHANGED <<bal, nullified, consumptions>>]_vars

\* C15 witness: the ledger accepted the consumption of a note the client's
\* store did not track.
C15_Witness ==
    /\ pc = "sync_consume"
    /\ ~tracked
    /\ consume_result = "ok"
    /\ lastAttempt.accepted
    /\ view.note = inheritance_note

====
